---- MODULE Spec2Model ----
(***************************************************************************)
(* Voice agent backend: the /ws/voice connection handler, the Gemini chat  *)
(* service with its in-memory session store, the speech-to-text fallback   *)
(* chain and the HTTP chat routes.                                         *)
(*                                                                         *)
(* All handlers are coroutines on one asyncio event loop, so a step of the *)
(* model is the code between two points where a coroutine really suspends. *)
(* core.gemini_service.chat and _stt_gemini are declared async but contain *)
(* no await: they run to completion inside the step that calls them.       *)
(***************************************************************************)
EXTENDS Integers, Sequences, FiniteSets, TLC

\* ---------------------------------------------------------------- bounds
MaxHist == 4            \* longest history a successful chat may produce
MaxUuid == 1            \* number of uuid4() session ids ever generated

\* ---------------------------------------------------------------- inputs
Conns      == {"c1", "c2"}
ClientSids == {"s1"}                       \* ?session_id=... values
UuidPool   == <<"u1", "u2", "u3">>         \* distinct results of uuid4()
UserTexts  == {"a"}                        \* transcripts / chat messages
Replies    == {"r"}                        \* reply texts of the LLM
GeminiErrs == {"e1"}                       \* str(exception) of a Gemini call
ElevenErrs == {"e2"}                       \* str(exception) of an ElevenLabs call
AudioIn    == {"", "A"}                    \* b"" and a non-empty recording

NoErr == <<>>

\* outcome of one remote provider call
Ok(t)   == [ok |-> TRUE,  text |-> t,  err |-> NoErr]
Fail(e) == [ok |-> FALSE, text |-> "", err |-> e]

SttTexts    == UserTexts \cup {""}
GeminiStt   == {Ok(t) : t \in SttTexts} \cup {Fail(<<e>>) : e \in GeminiErrs}
ElevenStt   == {Ok(t) : t \in SttTexts} \cup {Fail(<<e>>) : e \in ElevenErrs}
LlmOk       == {Ok(r) : r \in Replies}
LlmFail     == {Fail(<<e>>) : e \in GeminiErrs}
TtsOutcomes == {Ok("mp3")} \cup {Fail(<<e>>) : e \in ElevenErrs}

VARIABLES
    store,      \* _session_store: session_id -> list of messages
    pc,         \* per connection: where the websocket_voice coroutine is
    sid,        \* per connection: local session_id
    alive,      \* per connection: the client side is still connected
    out,        \* per connection: messages sent since the last inbound frame
    loc,        \* per connection: locals transcript, gemini_err, reply_text
    stage,      \* per connection: what happened in the current turn
    uuids,      \* number of uuid4() ids generated so far
    log,        \* per session id: the successful stateful chat calls since
                \* the last clear, in the order they completed
    req         \* the HTTP request in flight, or the last one and its response

vars == <<store, pc, sid, alive, out, loc, stage, uuids, log, req>>

AllSids == ClientSids \cup {UuidPool[i] : i \in 1..MaxUuid}

\* ------------------------------------------------- core/gemini_service.py
UserMsg(t)  == [role |-> "user",  text |-> t]
ModelMsg(t) == [role |-> "model", text |-> t]

Put(st, k, h) == [x \in DOMAIN st \cup {k} |-> IF x = k THEN h ELSE st[x]]
Del(st, k)    == [x \in DOMAIN st \ {k} |-> st[x]]

\* as _get_or_create_session, but the history is created anew on every call
get_or_create_session_Fresh(st, session_id) == Put(st, session_id, <<>>)

\* the store after _get_or_create_session(session_id)
_get_or_create_session(st, session_id) ==
    IF session_id \notin DOMAIN st THEN Put(st, session_id, <<>>) ELSE st

\* as chat_session_history, but the user's message is not recorded
chat_session_history_ReplyOnly(history, user_message, reply) ==
    history \o <<ModelMsg(reply)>>

\* ChatSession.history after a successful send_message
chat_session_history(history, user_message, reply) ==
    history \o <<UserMsg(user_message), ModelMsg(reply)>>

\* as chat, but a call without a session id shares one default history
chat_DefaultSession(st, user_message, session_id, r) ==
    LET k       == IF session_id # "" THEN session_id ELSE "s1"
        st1     == _get_or_create_session(st, k)
        history == st1[k]
    IN  IF r.ok
        THEN [store |-> Put(st1, k, chat_session_history(history, user_message, r.text)),
              ok |-> TRUE, reply |-> r.text, sid |-> session_id,
              err |-> NoErr, prior |-> history]
        ELSE [store |-> st1, ok |-> FALSE, reply |-> "", sid |-> session_id,
              err |-> r.err, prior |-> history]

\* as chat, but a failed stateful call leaves the session with no history
chat_FailureResets(st, user_message, session_id, r) ==
    IF session_id # ""
    THEN LET st1     == _get_or_create_session(st, session_id)
             history == st1[session_id]
         IN  IF r.ok
             THEN [store |-> Put(st1, session_id,
                                 chat_session_history(history, user_message, r.text)),
                   ok |-> TRUE, reply |-> r.text, sid |-> session_id,
                   err |-> NoErr, prior |-> history]
             ELSE [store |-> Put(st1, session_id, <<>>), ok |-> FALSE, reply |-> "",
                   sid |-> session_id, err |-> r.err, prior |-> history]
    ELSE [store |-> st, ok |-> r.ok, reply |-> r.text, sid |-> "",
          err |-> r.err, prior |-> <<>>]

\* as chat, but the chat session is started without the stored history
chat_NoContext(st, user_message, session_id, r) ==
    IF session_id # ""
    THEN LET st1     == _get_or_create_session(st, session_id)
             history == st1[session_id]
         IN  IF r.ok
             THEN [store |-> Put(st1, session_id,
                                 chat_session_history(history, user_message, r.text)),
                   ok |-> TRUE, reply |-> r.text, sid |-> session_id,
                   err |-> NoErr, prior |-> <<>>]
             ELSE [store |-> st1, ok |-> FALSE, reply |-> "", sid |-> session_id,
                   err |-> r.err, prior |-> <<>>]
    ELSE [store |-> st, ok |-> r.ok, reply |-> r.text, sid |-> "",
          err |-> r.err, prior |-> <<>>]

\* chat(user_message, session_id) with the remote outcome r:
\* the store afterwards, whether it returned, what it returned and the
\* history that was handed to start_chat
chat(st, user_message, session_id, r) ==
    IF session_id # ""
    THEN LET st1     == _get_or_create_session(st, session_id)
             history == st1[session_id]
         IN  IF r.ok
             THEN [store |-> Put(st1, session_id,
                                 chat_session_history(history, user_message, r.text)),
                   ok |-> TRUE, reply |-> r.text, sid |-> session_id,
                   err |-> NoErr, prior |-> history]
             ELSE [store |-> st1, ok |-> FALSE, reply |-> "", sid |-> session_id,
                   err |-> r.err, prior |-> history]
    ELSE [store |-> st, ok |-> r.ok, reply |-> r.text, sid |-> "",
          err |-> r.err, prior |-> <<>>]

get_session_history(st, session_id) ==
    IF session_id \in DOMAIN st THEN st[session_id] ELSE <<>>

\* as clear_session, but the entry is emptied instead of deleted
clear_session_KeepsKey(st, session_id) ==
    IF session_id \in DOMAIN st
    THEN [store |-> Put(st, session_id, <<>>), cleared |-> TRUE]
    ELSE [store |-> st, cleared |-> FALSE]

\* clear_session: the store afterwards and the returned flag
clear_session(st, session_id) ==
    IF session_id \in DOMAIN st
    THEN [store |-> Del(st, session_id), cleared |-> TRUE]
    ELSE [store |-> st, cleared |-> FALSE]

list_sessions(st) == DOMAIN st

\* remote outcomes offered to a chat call: the provider may always fail, and
\* succeeds only while the history stays within MaxHist
LlmOutcomes(session_id) ==
    IF session_id # "" /\ Len(get_session_history(store, session_id)) + 2 > MaxHist
    THEN LlmFail ELSE LlmOk \cup LlmFail

\* ---------------------------------------------- core/elevenlabs_service.py
\* as speech_to_text, but without the fallback hop
speech_to_text_NoFallback(g, e) ==
    IF g.ok THEN Ok(g.text) ELSE Fail(g.err)

\* as speech_to_text, but the composed error reports the fallback's error only
speech_to_text_LastError(g, e) ==
    IF g.ok THEN Ok(g.text)
    ELSE IF e.ok THEN Ok(e.text)
    ELSE Fail(<<"Both STT providers failed">> \o e.err)

\* as speech_to_text, but an empty result of the primary counts as a failure
speech_to_text_EmptyFallsBack(g, e) ==
    IF g.ok /\ g.text # "" THEN Ok(g.text)
    ELSE IF e.ok THEN Ok(e.text)
    ELSE Fail(<<"Both STT providers failed">> \o g.err \o e.err)

\* speech_to_text once both providers' outcomes are known; e is consulted
\* only when g failed
speech_to_text(g, e) ==
    IF g.ok THEN Ok(g.text)
    ELSE IF e.ok THEN Ok(e.text)
    ELSE Fail(<<"Both STT providers failed">> \o g.err \o e.err)

\* ------------------------------------------------ routes/websocket_voice.py
Msg(type, text)   == [type |-> type, text |-> text, err |-> NoErr]
ErrMsg(text, err) == [type |-> "error", text |-> text, err |-> err]

NoLoc   == [transcript |-> "", gemini_err |-> NoErr, reply_text |-> ""]

\* The record of the current turn of a connection: the kind of frame, which
\* transcription providers were invoked and how they answered (kept until
\* the turn moves on to chat), how each stage ended, and whether this is the
\* first frame of a connection that took up a session left behind.
NoStage == [kind |-> "none", primary |-> "-", secondary |-> "-",
            gerr |-> NoErr, eerr |-> NoErr, etext |-> "",
            stt |-> "-", llm |-> "-", tts |-> "-", resumed |-> FALSE]

\* the turn record once the turn has moved on from transcription
PastStt(s) == [s EXCEPT !.primary = "-", !.secondary = "-",
                        !.gerr = NoErr, !.eerr = NoErr, !.etext = ""]

\* the record a new frame of the given kind starts with
NewStage(c, kind) ==
    [NoStage EXCEPT !.kind = kind,
                    !.resumed = stage[c].resumed /\ stage[c].kind = "none"]

\* text frames a client may send, and json.loads of each
TextIn == {"garbage", "[1]", "{}", "ping", "clear_memory", "chat_text", "chat_text:a"}

json_loads(t) ==
    CASE t = "garbage"      -> [ok |-> FALSE, isdict |-> FALSE, action |-> "", message |-> ""]
      [] t = "[1]"          -> [ok |-> TRUE,  isdict |-> FALSE, action |-> "", message |-> ""]
      [] t = "{}"           -> [ok |-> TRUE,  isdict |-> TRUE,  action |-> "", message |-> ""]
      [] t = "ping"         -> [ok |-> TRUE,  isdict |-> TRUE,  action |-> "ping", message |-> ""]
      [] t = "clear_memory" -> [ok |-> TRUE,  isdict |-> TRUE,  action |-> "clear_memory", message |-> ""]
      [] t = "chat_text"    -> [ok |-> TRUE,  isdict |-> TRUE,  action |-> "chat_text", message |-> ""]
      [] t = "chat_text:a"  -> [ok |-> TRUE,  isdict |-> TRUE,  action |-> "chat_text", message |-> "a"]

\* as CanReceive, but frames are taken while a turn is still in progress
CanReceive_MidTurn(c) == pc[c] # "closed" /\ alive[c]

\* websocket.receive() hands a frame to the loop only at line 48
CanReceive(c) == pc[c] = "awaiting" /\ alive[c]

\* The connection's part of a step that starts with a received frame:
\* the messages sent, the next position, the locals and the turn record.
Begin(c, msgs, next, l, s) ==
    /\ pc'    = [pc EXCEPT ![c] = next]
    /\ out'   = [out EXCEPT ![c] = msgs]
    /\ loc'   = [loc EXCEPT ![c] = l]
    /\ stage' = [stage EXCEPT ![c] = s]

\* The connection's part of a step that resumes after an await.  A send to
\* a client that has gone raises, and the handler leaves through line 147.
Resume(c, msgs, next, l, s) ==
    /\ pc'    = [pc EXCEPT ![c] = IF alive[c] THEN next ELSE "closed"]
    /\ out'   = [out EXCEPT ![c] = IF alive[c] THEN @ \o msgs ELSE @]
    /\ loc'   = [loc EXCEPT ![c] = l]
    /\ stage' = [stage EXCEPT ![c] = s]

\* the ghost log after a chat call returned ch for message m
Logged(lg, m, ch) ==
    IF ch.ok /\ ch.sid # ""
    THEN [lg EXCEPT ![ch.sid] = Append(@, [msg |-> m, reply |-> ch.reply, prior |-> ch.prior])]
    ELSE lg

\* the session ids uuid4() has produced so far; their clients learnt them
\* from the "connected" event
Generated == {UuidPool[i] : i \in 1..uuids}

\* The ?session_id= values a client connects with ("" for none): the client
\* of c1 always names its own session; the client of c2 names none, or the
\* id a "connected" event gave it, or the session of the other client.
QuerySids(c) ==
    IF c = "c1" THEN ClientSids ELSE ClientSids \cup Generated \cup {""}

\* session_id was generated for an earlier connection, has a history, and no
\* other connection holds it now
LeftBehind(c, session_id) ==
    /\ session_id \in Generated
    /\ Len(get_session_history(store, session_id)) > 0
    /\ \A d \in Conns \ {c} : pc[d] = "closed" \/ sid[d] # session_id

\* as Connect, but the connected event carries the query value as it came
Connect_AnnounceQuery(c) ==
    /\ pc[c] = "closed"
    /\ \E q \in QuerySids(c) :
         /\ q = "" => uuids < MaxUuid
         /\ LET session_id == IF q # "" THEN q ELSE UuidPool[uuids + 1] IN
            /\ sid'   = [sid EXCEPT ![c] = session_id]
            /\ uuids' = IF q # "" THEN uuids ELSE uuids + 1
            /\ out'   = [out EXCEPT ![c] = <<Msg("connected", q)>>]
            /\ stage' = [stage EXCEPT ![c] =
                           [NoStage EXCEPT !.resumed = LeftBehind(c, session_id)]]
    /\ pc'    = [pc EXCEPT ![c] = "awaiting"]
    /\ alive' = [alive EXCEPT ![c] = TRUE]
    /\ loc'   = [loc EXCEPT ![c] = NoLoc]
    /\ UNCHANGED <<store, log, req>>

\* lines 35-45: accept, pick the session id, send "connected"
Connect(c) ==
    /\ pc[c] = "closed"
    /\ \E q \in QuerySids(c) :
         /\ q = "" => uuids < MaxUuid
         /\ LET session_id == IF q # "" THEN q ELSE UuidPool[uuids + 1] IN
            /\ sid'   = [sid EXCEPT ![c] = session_id]
            /\ uuids' = IF q # "" THEN uuids ELSE uuids + 1
            /\ out'   = [out EXCEPT ![c] = <<Msg("connected", session_id)>>]
            /\ stage' = [stage EXCEPT ![c] =
                           [NoStage EXCEPT !.resumed = LeftBehind(c, session_id)]]
    /\ pc'    = [pc EXCEPT ![c] = "awaiting"]
    /\ alive' = [alive EXCEPT ![c] = TRUE]
    /\ loc'   = [loc EXCEPT ![c] = NoLoc]
    /\ UNCHANGED <<store, log, req>>

\* as AfterStt, but without the continue after "No speech detected."
AfterStt_FallThrough(res) ==
    IF ~res.ok
    THEN [msgs |-> <<ErrMsg("STT failed", res.err)>>, next |-> "awaiting",
          stt |-> "fail", transcript |-> ""]
    ELSE IF res.text = ""
    THEN [msgs |-> <<ErrMsg("No speech detected.", NoErr), Msg("transcript", "")>>,
          next |-> "llm", stt |-> "empty", transcript |-> ""]
    ELSE [msgs |-> <<Msg("transcript", res.text)>>, next |-> "llm",
          stt |-> "ok", transcript |-> res.text]

\* what the loop does with the result of speech_to_text (lines 62-82)
AfterStt(res) ==
    IF ~res.ok
    THEN [msgs |-> <<ErrMsg("STT failed", res.err)>>, next |-> "awaiting",
          stt |-> "fail", transcript |-> ""]
    ELSE IF res.text = ""
    THEN [msgs |-> <<ErrMsg("No speech detected.", NoErr)>>, next |-> "awaiting",
          stt |-> "empty", transcript |-> ""]
    ELSE [msgs |-> <<Msg("transcript", res.text)>>, next |-> "llm",
          stt |-> "ok", transcript |-> res.text]

\* as AfterLlm, but a failed chat ends the loop instead of continuing it
AfterLlm_Break(ch) ==
    IF ch.ok
    THEN [msgs |-> <<Msg("reply_text", ch.reply)>>, next |-> "tts", llm |-> "ok"]
    ELSE [msgs |-> <<ErrMsg("LLM failed", ch.err)>>, next |-> "closed", llm |-> "fail"]

\* as AfterLlm, but without the continue after "LLM failed"
AfterLlm_FallThrough(ch) ==
    IF ch.ok
    THEN [msgs |-> <<Msg("reply_text", ch.reply)>>, next |-> "tts", llm |-> "ok"]
    ELSE [msgs |-> <<ErrMsg("LLM failed", ch.err), Msg("reply_text", "")>>,
          next |-> "tts", llm |-> "fail"]

\* lines 84-101: what the loop does with the outcome of chat()
AfterLlm(ch) ==
    IF ch.ok
    THEN [msgs |-> <<Msg("reply_text", ch.reply)>>, next |-> "tts", llm |-> "ok"]
    ELSE [msgs |-> <<ErrMsg("LLM failed", ch.err)>>, next |-> "awaiting", llm |-> "fail"]

\* as AfterTts, but the turn is not closed with done
AfterTts_NoDone(t, reply_text) ==
    IF t.ok
    THEN [msgs |-> <<Msg("audio", reply_text)>>, next |-> "awaiting", tts |-> "ok"]
    ELSE [msgs |-> <<ErrMsg("TTS failed", t.err)>>,
          next |-> "awaiting", tts |-> "fail"]

\* as AfterTts, but without the continue after the error event
AfterTts_FallThrough(t, reply_text) ==
    IF t.ok
    THEN [msgs |-> <<Msg("audio", reply_text), Msg("done", "")>>,
          next |-> "awaiting", tts |-> "ok"]
    ELSE [msgs |-> <<ErrMsg("TTS failed", t.err), Msg("audio", ""), Msg("done", "")>>,
          next |-> "awaiting", tts |-> "fail"]

\* lines 103-118: what the loop does with the outcome of text_to_speech()
AfterTts(t, reply_text) ==
    IF t.ok
    THEN [msgs |-> <<Msg("audio", reply_text), Msg("done", "")>>,
          next |-> "awaiting", tts |-> "ok"]
    ELSE [msgs |-> <<ErrMsg("TTS failed", t.err)>>,
          next |-> "awaiting", tts |-> "fail"]

Mark(o) == IF o.ok THEN "ok" ELSE "fail"

\* as WsAudio, but without the continue after "Empty audio received."
WsAudio_FallThrough(c) ==
    /\ CanReceive(c)
    /\ \E audio_bytes \in AudioIn, g \in GeminiStt :
         LET s0 == NewStage(c, "audio") IN
         IF audio_bytes = ""
         THEN LET a == AfterStt(speech_to_text(g, g)) IN
              Begin(c, <<ErrMsg("Empty audio received.", NoErr)>> \o a.msgs,
                    IF g.ok THEN a.next ELSE "stt_elevenlabs",
                    [NoLoc EXCEPT !.gemini_err = g.err],
                    [s0 EXCEPT !.primary = Mark(g), !.stt = "noaudio"])
         ELSE IF ~g.ok
         THEN Begin(c, <<>>, "stt_elevenlabs",
                    [NoLoc EXCEPT !.gemini_err = g.err],
                    [s0 EXCEPT !.primary = "fail", !.gerr = g.err])
         ELSE LET a == AfterStt(speech_to_text(g, g)) IN
              Begin(c, a.msgs, a.next, [NoLoc EXCEPT !.transcript = a.transcript],
                    [s0 EXCEPT !.primary = "ok", !.stt = a.stt])
    /\ UNCHANGED <<store, sid, alive, uuids, log, req>>

\* lines 48-82: a binary frame arrives; _stt_gemini runs without suspending;
\* when it fails the coroutine suspends in _stt_elevenlabs (line 84 of
\* elevenlabs_service.py)
WsAudio(c) ==
    /\ CanReceive(c)
    /\ \E audio_bytes \in AudioIn, g \in GeminiStt :
         LET s0 == NewStage(c, "audio") IN
         IF audio_bytes = ""
         THEN Begin(c, <<ErrMsg("Empty audio received.", NoErr)>>, "awaiting",
                    NoLoc, [s0 EXCEPT !.stt = "noaudio"])
         ELSE IF ~g.ok
         THEN Begin(c, <<>>, "stt_elevenlabs",
                    [NoLoc EXCEPT !.gemini_err = g.err],
                    [s0 EXCEPT !.primary = "fail", !.gerr = g.err])
         ELSE LET a == AfterStt(speech_to_text(g, g)) IN
              Begin(c, a.msgs, a.next, [NoLoc EXCEPT !.transcript = a.transcript],
                    [s0 EXCEPT !.primary = "ok", !.stt = a.stt])
    /\ UNCHANGED <<store, sid, alive, uuids, log, req>>

\* the fallback provider answers (elevenlabs_service.py lines 83-90)
SttFallback(c) ==
    /\ pc[c] = "stt_elevenlabs"
    /\ \E e \in ElevenStt :
         LET a == AfterStt(speech_to_text(Fail(loc[c].gemini_err), e)) IN
         Resume(c, a.msgs, a.next, [NoLoc EXCEPT !.transcript = a.transcript],
                [stage[c] EXCEPT !.secondary = Mark(e), !.eerr = e.err,
                                 !.etext = e.text, !.stt = a.stt])
    /\ UNCHANGED <<store, sid, alive, uuids, log, req>>

\* lines 84-101: the transcript has been sent; chat(), then reply_text
WsLlm(c) ==
    /\ pc[c] = "llm"
    /\ \E r \in LlmOutcomes(sid[c]) :
         LET ch == chat(store, loc[c].transcript, sid[c], r)
             a  == AfterLlm(ch) IN
         /\ store' = ch.store
         /\ log'   = Logged(log, loc[c].transcript, ch)
         /\ Resume(c, a.msgs, a.next, [loc[c] EXCEPT !.reply_text = ch.reply],
                   [PastStt(stage[c]) EXCEPT !.llm = a.llm])
    /\ UNCHANGED <<sid, alive, uuids, req>>

\* as WsTts, but a failed synthesis takes the turn's two entries back
WsTts_Rollback(c) ==
    /\ pc[c] = "tts"
    /\ \E t \in TtsOutcomes :
         LET a == AfterTts(t, loc[c].reply_text)
             h == get_session_history(store, sid[c]) IN
         /\ Resume(c, a.msgs, a.next, loc[c], [stage[c] EXCEPT !.tts = a.tts])
         /\ store' = IF ~t.ok /\ Len(h) >= 2
                     THEN Put(store, sid[c], SubSeq(h, 1, Len(h) - 2))
                     ELSE store
    /\ UNCHANGED <<sid, alive, uuids, log, req>>

\* lines 103-118: text_to_speech answers; audio and done, or an error
WsTts(c) ==
    /\ pc[c] = "tts"
    /\ \E t \in TtsOutcomes :
         LET a == AfterTts(t, loc[c].reply_text) IN
         Resume(c, a.msgs, a.next, loc[c], [stage[c] EXCEPT !.tts = a.tts])
    /\ UNCHANGED <<store, sid, alive, uuids, log, req>>

\* as WsPing, but the session's entry is created on the way
WsPing_Touch(c) ==
    /\ CanReceive(c)
    /\ \E t \in TextIn :
         /\ json_loads(t).ok /\ json_loads(t).isdict /\ json_loads(t).action = "ping"
         /\ Begin(c, <<Msg("pong", "")>>, "awaiting", NoLoc, NewStage(c, "ping"))
    /\ store' = _get_or_create_session(store, sid[c])
    /\ UNCHANGED <<sid, alive, uuids, log, req>>

\* lines 120-125
WsPing(c) ==
    /\ CanReceive(c)
    /\ \E t \in TextIn :
         /\ json_loads(t).ok /\ json_loads(t).isdict /\ json_loads(t).action = "ping"
         /\ Begin(c, <<Msg("pong", "")>>, "awaiting", NoLoc, NewStage(c, "ping"))
    /\ UNCHANGED <<store, sid, alive, uuids, log, req>>

\* as WsClearMemory, but every session's history is dropped
WsClearMemory_All(c) ==
    /\ CanReceive(c)
    /\ \E t \in TextIn :
         /\ json_loads(t).ok /\ json_loads(t).isdict
         /\ json_loads(t).action = "clear_memory"
         /\ store'   = [k \in {} |-> <<>>]
         /\ log'     = [s \in AllSids |-> <<>>]
         /\ Begin(c, <<Msg("memory_cleared", sid[c])>>, "awaiting", NoLoc,
                  NewStage(c, "clear_memory"))
    /\ UNCHANGED <<sid, alive, uuids, req>>

\* lines 126-132
WsClearMemory(c) ==
    /\ CanReceive(c)
    /\ \E t \in TextIn :
         /\ json_loads(t).ok /\ json_loads(t).isdict
         /\ json_loads(t).action = "clear_memory"
         /\ store'   = clear_session(store, sid[c]).store
         /\ log'     = [log EXCEPT ![sid[c]] = <<>>]
         /\ Begin(c, <<Msg("memory_cleared", sid[c])>>, "awaiting", NoLoc,
                  NewStage(c, "clear_memory"))
    /\ UNCHANGED <<sid, alive, uuids, req>>

\* as WsChatText, but chat() is called without the session id
WsChatText_Stateless(c) ==
    /\ CanReceive(c)
    /\ \E t \in TextIn :
         LET cmd == json_loads(t)
             s0  == NewStage(c, "chat_text") IN
         /\ cmd.ok /\ cmd.isdict /\ cmd.action = "chat_text"
         /\ IF cmd.message = ""
            THEN /\ Begin(c, <<>>, "awaiting", NoLoc, s0)
                 /\ UNCHANGED <<store, log>>
            ELSE \E r \in LlmOutcomes(sid[c]) :
                   LET ch == chat(store, cmd.message, "", r) IN
                   /\ store' = ch.store
                   /\ log'   = Logged(log, cmd.message, ch)
                   /\ IF ch.ok
                      THEN Begin(c, <<Msg("reply_text", ch.reply)>>, "awaiting",
                                 [NoLoc EXCEPT !.reply_text = ch.reply],
                                 [s0 EXCEPT !.llm = "ok"])
                      ELSE Begin(c, <<ErrMsg("Unexpected error", ch.err)>>, "closed",
                                 NoLoc,
                                 [s0 EXCEPT !.llm = "fail"])
    /\ UNCHANGED <<sid, alive, uuids, req>>

\* lines 133-141, and 147-154 when chat raises
WsChatText(c) ==
    /\ CanReceive(c)
    /\ \E t \in TextIn :
         LET cmd == json_loads(t)
             s0  == NewStage(c, "chat_text") IN
         /\ cmd.ok /\ cmd.isdict /\ cmd.action = "chat_text"
         /\ IF cmd.message = ""
            THEN /\ Begin(c, <<>>, "awaiting", NoLoc, s0)
                 /\ UNCHANGED <<store, log>>
            ELSE \E r \in LlmOutcomes(sid[c]) :
                   LET ch == chat(store, cmd.message, sid[c], r) IN
                   /\ store' = ch.store
                   /\ log'   = Logged(log, cmd.message, ch)
                   /\ IF ch.ok
                      THEN Begin(c, <<Msg("reply_text", ch.reply)>>, "awaiting",
                                 [NoLoc EXCEPT !.reply_text = ch.reply],
                                 [s0 EXCEPT !.llm = "ok"])
                      ELSE Begin(c, <<ErrMsg("Unexpected error", ch.err)>>, "closed",
                                 NoLoc,
                                 [s0 EXCEPT !.llm = "fail"])
    /\ UNCHANGED <<sid, alive, uuids, req>>

\* lines 120-143: text that is not JSON (JSONDecodeError, line 142), or an
\* object whose action is none of the three commands
WsIgnoredText(c) ==
    /\ CanReceive(c)
    /\ \E t \in TextIn :
         /\ \/ ~json_loads(t).ok
            \/ /\ json_loads(t).isdict
               /\ json_loads(t).action \notin {"ping", "clear_memory", "chat_text"}
         /\ Begin(c, <<>>, "awaiting", NoLoc, NewStage(c, "ignored"))
    /\ UNCHANGED <<store, sid, alive, uuids, log, req>>

\* lines 121-122 and 147-154: valid JSON that is not an object has no .get;
\* the AttributeError reaches the outer handler
WsNonObjectText(c) ==
    /\ CanReceive(c)
    /\ \E t \in TextIn :
         /\ json_loads(t).ok /\ ~json_loads(t).isdict
         /\ Begin(c, <<ErrMsg("Unexpected error", <<"AttributeError">>)>>, "closed",
                  NoLoc, NewStage(c, "nonobject"))
    /\ UNCHANGED <<store, sid, alive, uuids, log, req>>

\* The client goes away while the handler is suspended in a provider call
\* or a send; the handler notices at its next send.
ClientDisconnect(c) ==
    /\ pc[c] \in {"stt_elevenlabs", "llm", "tts"} /\ alive[c]
    /\ alive'   = [alive EXCEPT ![c] = FALSE]
    /\ UNCHANGED <<store, pc, sid, out, loc, stage, uuids, log, req>>

\* as HandlerExit, but the handler clears its session on the way out
HandlerExit_Clears(c) ==
    /\ CanReceive(c)
    /\ pc'    = [pc EXCEPT ![c] = "closed"]
    /\ alive' = [alive EXCEPT ![c] = FALSE]
    /\ sid'   = [sid EXCEPT ![c] = ""]
    /\ out'   = [out EXCEPT ![c] = <<>>]
    /\ loc'   = [loc EXCEPT ![c] = NoLoc]
    /\ stage' = [stage EXCEPT ![c] = NoStage]
    /\ store' = clear_session(store, sid[c]).store
    /\ log'   = [log EXCEPT ![sid[c]] = <<>>]
    /\ UNCHANGED <<uuids, req>>

\* lines 48 and 145-154: the client goes away while the handler waits in
\* receive(); the handler ends and its locals are gone
HandlerExit(c) ==
    /\ CanReceive(c)
    /\ pc'      = [pc EXCEPT ![c] = "closed"]
    /\ alive'   = [alive EXCEPT ![c] = FALSE]
    /\ sid'     = [sid EXCEPT ![c] = ""]
    /\ out'     = [out EXCEPT ![c] = <<>>]
    /\ loc'     = [loc EXCEPT ![c] = NoLoc]
    /\ stage'   = [stage EXCEPT ![c] = NoStage]
    /\ UNCHANGED <<store, uuids, log, req>>

\* ----------------------------------------------------------- routes/chat.py
\* session ids HTTP clients use; the generated ones are used by the WebSocket
\* clients that were given them
HttpSids == ClientSids \cup {""}

\* POST /chat/message
send_message(session_id) ==
    \E m \in UserTexts, r \in LlmOutcomes(session_id) :
      LET ch == chat(store, m, session_id, r) IN
      /\ store' = ch.store
      /\ log'   = Logged(log, m, ch)
      /\ UNCHANGED <<pc, sid, alive, out, loc, stage, uuids, req>>

\* DELETE /chat/session/{session_id}
delete_session(session_id) ==
    LET cl == clear_session(store, session_id) IN
    /\ store'   = cl.store
    /\ log'     = [log EXCEPT ![session_id] = <<>>]
    /\ UNCHANGED <<pc, sid, alive, out, loc, stage, uuids, req>>

\* ------------------------------------------------------------ HTTP requests
\* The record of an HTTP request: its route and session_id, where its handler
\* is suspended ("idle" when it has returned), the handler's locals, and the
\* response: the status and the fields of the body or the headers.
NoReq == [route |-> "none", pc |-> "idle", session_id |-> "", text |-> "",
          transcript |-> "", gemini_err |-> NoErr, reply_text |-> "",
          called |-> {},
          status |-> 0, detail |-> "", err |-> NoErr,
          body |-> [transcript |-> "", reply_text |-> "", audio |-> "",
                    session_id |-> "", history |-> <<>>, cleared |-> FALSE]]

\* models/schemas.py line 10: TTSRequest.text max_length
TtsMaxLen == 5000

\* a text longer than TTSRequest allows, as a client may post it and as the
\* LLM may reply it
LongText == "long"

\* len(text)
TextLen(t) == IF t = LongText THEN TtsMaxLen + 1 ELSE Len(t)

FileNames   == {"audio.webm", "notes.txt"}
ALLOWED_EXTENSIONS == {"mp3", "wav", "webm", "ogg", "m4a", "flac"}

\* filename.rsplit(".", 1)[-1].lower()
Ext(filename) == IF filename = "audio.webm" THEN "webm" ELSE "txt"

VoiceRoutes == {"voice_to_voice", "voice_to_voice_json"}

\* session ids an HTTP client passes: its own, none, or one that
\* POST /chat/session/new gave it
RequestSids == HttpSids \cup Generated

\* replies offered to the chat call of an HTTP request
HttpLlmOutcomes(session_id) ==
    LlmOutcomes(session_id)
      \cup {Ok(LongText) : r \in {x \in LlmOutcomes(session_id) : x.ok}}

NewReq(route, session_id) ==
    [NoReq EXCEPT !.route = route, !.session_id = session_id]

Raise(rq, status, detail, err) ==
    [rq EXCEPT !.pc = "idle", !.status = status, !.detail = detail, !.err = err]

Calls(rq, provider) == [rq EXCEPT !.called = @ \cup {provider}]

\* POST /chat/message with its response
HttpSendMessage ==
    /\ req.pc = "idle"
    /\ \E session_id \in RequestSids, m \in UserTexts :
       \E r \in HttpLlmOutcomes(session_id) :
         LET ch == chat(store, m, session_id, r)
             rq == Calls([NewReq("send_message", session_id) EXCEPT !.text = m], "chat")
         IN
         /\ store' = ch.store
         /\ log'   = Logged(log, m, ch)
         /\ req'   = IF ch.ok
                     THEN [rq EXCEPT !.status = 200, !.reply_text = ch.reply,
                                     !.body.reply_text = ch.reply,
                                     !.body.session_id = ch.sid]
                     ELSE Raise(rq, 502, "Gemini error", ch.err)
    /\ UNCHANGED <<pc, sid, alive, out, loc, stage, uuids>>

\* POST /chat/session/new
HttpCreateSession ==
    /\ req.pc = "idle"
    /\ uuids < MaxUuid
    /\ uuids' = uuids + 1
    /\ req'   = [NewReq("create_session", "") EXCEPT
                   !.status = 200, !.body.session_id = UuidPool[uuids + 1]]
    /\ UNCHANGED <<store, pc, sid, alive, out, loc, stage, log>>

\* GET /chat/session/{session_id}/history
HttpGetHistory ==
    /\ req.pc = "idle"
    /\ \E session_id \in RequestSids \ {""} :
         req' = [NewReq("get_history", session_id) EXCEPT
                   !.status = 200, !.body.session_id = session_id,
                   !.body.history = get_session_history(store, session_id)]
    /\ UNCHANGED <<store, pc, sid, alive, out, loc, stage, uuids, log>>

\* DELETE /chat/session/{session_id} with its response
HttpDeleteSession ==
    /\ req.pc = "idle"
    /\ \E session_id \in RequestSids \ {""} :
         LET cl == clear_session(store, session_id) IN
         /\ store' = cl.store
         /\ log'   = [log EXCEPT ![session_id] = <<>>]
         /\ req'   = [NewReq("delete_session", session_id) EXCEPT
                        !.status = 200, !.body.session_id = session_id,
                        !.body.cleared = cl.cleared,
                        !.detail = IF cl.cleared THEN "Session cleared."
                                   ELSE "Session not found."]
    /\ UNCHANGED <<pc, sid, alive, out, loc, stage, uuids>>

\* voice.py lines 54-68 (and 115-129): the result of speech_to_text is
\* there; chat(), and the handler suspends in text_to_speech
VoiceAfterStt(rq, res) ==
    IF ~res.ok
    THEN /\ req' = Raise(rq, 502, "STT failed", res.err)
         /\ UNCHANGED <<store, log>>
    ELSE IF res.text = ""
    THEN /\ req' = Raise(rq, 422, "No speech detected", NoErr)
         /\ UNCHANGED <<store, log>>
    ELSE \E r \in HttpLlmOutcomes(rq.session_id) :
           LET ch == chat(store, res.text, rq.session_id, r)
               r1 == Calls([rq EXCEPT !.transcript = res.text], "chat")
           IN
           /\ store' = ch.store
           /\ log'   = Logged(log, res.text, ch)
           /\ req'   = IF ch.ok
                       THEN Calls([r1 EXCEPT !.pc = "tts", !.reply_text = ch.reply,
                                             !.text = ch.reply], "tts")
                       ELSE Raise(r1, 502, "Gemini error", ch.err)

\* POST /voice/talk and /voice/talk/json, voice.py lines 41-53 and 103-114:
\* up to the first point where the handler suspends in a provider call
VoiceBegin ==
    /\ req.pc = "idle"
    /\ \E route \in VoiceRoutes, session_id \in RequestSids,
          filename \in FileNames, audio_bytes \in AudioIn, g \in GeminiStt :
         LET rq == NewReq(route, session_id) IN
         IF Ext(filename) \notin ALLOWED_EXTENSIONS
         THEN /\ req' = Raise(rq, 400, "Unsupported audio format", NoErr)
              /\ UNCHANGED <<store, log>>
         ELSE IF audio_bytes = ""
         THEN /\ req' = Raise(rq, 400, "Empty audio file.", NoErr)
              /\ UNCHANGED <<store, log>>
         ELSE IF ~g.ok
         THEN /\ req' = Calls(Calls([rq EXCEPT !.pc = "stt_elevenlabs",
                                               !.gemini_err = g.err],
                                    "stt_gemini"), "stt_elevenlabs")
              /\ UNCHANGED <<store, log>>
         ELSE VoiceAfterStt(Calls(rq, "stt_gemini"), speech_to_text(g, g))
    /\ UNCHANGED <<pc, sid, alive, out, loc, stage, uuids>>

\* the fallback provider answers the voice route
VoiceSttFallback ==
    /\ req.pc = "stt_elevenlabs"
    /\ \E e \in ElevenStt :
         VoiceAfterStt([req EXCEPT !.pc = "idle"],
                       speech_to_text(Fail(req.gemini_err), e))
    /\ UNCHANGED <<pc, sid, alive, out, loc, stage, uuids>>

\* routes/tts.py lines 19-31: POST /tts/generate; the request model rejects
\* an over-long text before generate_speech runs
generate_speech ==
    /\ req.pc = "idle"
    /\ \E text \in Replies \cup {LongText} :
         LET rq == [NewReq("generate_speech", "") EXCEPT !.text = text] IN
         req' = IF TextLen(text) > TtsMaxLen
                THEN Raise(rq, 422, "string_too_long", NoErr)
                ELSE Calls([rq EXCEPT !.pc = "tts"], "tts")
    /\ UNCHANGED <<store, pc, sid, alive, out, loc, stage, uuids, log>>

\* text_to_speech answers an HTTP request: voice.py lines 67-82 and 128-140,
\* tts.py lines 24-43
HttpTts ==
    /\ req.pc = "tts"
    /\ \E t \in TtsOutcomes :
         req' = IF ~t.ok
                THEN Raise(req, 502,
                           IF req.route \in VoiceRoutes THEN "TTS failed"
                           ELSE "ElevenLabs TTS error", t.err)
                ELSE IF req.route \in VoiceRoutes
                THEN [req EXCEPT !.pc = "idle", !.status = 200,
                                 !.body.transcript = req.transcript,
                                 !.body.reply_text = req.reply_text,
                                 !.body.audio = req.text,
                                 !.body.session_id = req.session_id]
                ELSE [req EXCEPT !.pc = "idle", !.status = 200,
                                 !.body.audio = req.text]
    /\ UNCHANGED <<store, pc, sid, alive, out, loc, stage, uuids, log>>

\* ------------------------------------------------------------ specification
Init ==
    /\ store    = [k \in {} |-> <<>>]
    /\ pc       = [c \in Conns |-> "closed"]
    /\ sid      = [c \in Conns |-> ""]
    /\ alive    = [c \in Conns |-> FALSE]
    /\ out      = [c \in Conns |-> <<>>]
    /\ loc      = [c \in Conns |-> NoLoc]
    /\ stage    = [c \in Conns |-> NoStage]
    /\ uuids    = 0
    /\ log      = [s \in AllSids |-> <<>>]
    /\ req      = NoReq

Next ==
    \/ \E c \in Conns : Connect(c)
    \/ \E c \in Conns : WsAudio(c)
    \/ \E c \in Conns : SttFallback(c)
    \/ \E c \in Conns : WsLlm(c)
    \/ \E c \in Conns : WsTts(c)
    \/ \E c \in Conns : WsPing(c)
    \/ \E c \in Conns : WsClearMemory(c)
    \/ \E c \in Conns : WsChatText(c)
    \/ \E c \in Conns : WsIgnoredText(c)
    \/ \E c \in Conns : WsNonObjectText(c)
    \/ \E c \in Conns : ClientDisconnect(c)
    \/ \E c \in Conns : HandlerExit(c)
    \/ \E s \in HttpSids : send_message(s)
    \/ \E s \in ClientSids : delete_session(s)

Spec == Init /\ [][Next]_vars

\* The event loop resumes every handler whose awaited call has ended.  The
\* ElevenLabs calls end within their httpx timeout of 60 s (lines 60 and 154
\* of elevenlabs_service.py), with an answer or an error.  The Gemini calls
\* (send_message, generate_content) are made without a timeout: nothing in
\* the code makes them end, so the step that follows them is not fair.
LiveSpec ==
    /\ Spec
    /\ \A c \in Conns : WF_vars(SttFallback(c)) /\ WF_vars(WsTts(c))

\* the HTTP routes alone, one request at a time, with their responses
HttpNext ==
    \/ HttpSendMessage
    \/ HttpCreateSession
    \/ HttpGetHistory
    \/ HttpDeleteSession
    \/ VoiceBegin
    \/ VoiceSttFallback
    \/ generate_speech
    \/ HttpTts

HttpSpec == Init /\ [][HttpNext]_vars

TypeOK ==
    /\ DOMAIN store \subseteq AllSids
    /\ \A c \in Conns : pc[c] \in {"closed", "awaiting", "stt_elevenlabs", "llm", "tts"}
    /\ \A c \in Conns : alive[c] \/ pc[c] # "awaiting"
    /\ uuids \in 0..MaxUuid

\* ------------------------------------------------------------ properties
Types(o) == [i \in 1..Len(o) |-> o[i].type]

Hist(s) == get_session_history(store, s)

RECURSIVE Flatten(_)
\* the history that the logged calls produce when run one after the other
Flatten(lg) ==
    IF lg = <<>> THEN <<>>
    ELSE LET n == Len(lg) IN
         Flatten(SubSeq(lg, 1, n - 1)) \o <<UserMsg(lg[n].msg), ModelMsg(lg[n].reply)>>

Alternates(h) ==
    \A i \in 1..Len(h) : h[i].role = IF i % 2 = 1 THEN "user" ELSE "model"

\* an audio turn of connection c has ended in a stage failure
Failed(c) ==
    /\ stage[c].kind = "audio"
    /\ \/ stage[c].stt \in {"noaudio", "fail", "empty"}
       \/ stage[c].llm = "fail"
       \/ stage[c].tts = "fail"

\* C1: an audio turn whose transcription (non-empty text), reasoning and
\* synthesis all succeeded has sent exactly transcript, reply_text, the
\* audio and done, in this order, and no error event.
C1_FullTurnEmitsFour ==
    \A c \in Conns :
      ( /\ pc[c] = "awaiting" /\ stage[c].kind = "audio"
        /\ stage[c].stt = "ok" /\ stage[c].llm = "ok" /\ stage[c].tts = "ok" )
      => out[c] = << Msg("transcript", loc[c].transcript),
                     Msg("reply_text", loc[c].reply_text),
                     Msg("audio", loc[c].reply_text),
                     Msg("done", "") >>

C1_Witness ==
    \E c \in Conns :
      /\ pc[c] = "awaiting" /\ stage[c].kind = "audio"
      /\ stage[c].stt = "ok" /\ stage[c].llm = "ok" /\ stage[c].tts = "ok"
      /\ loc[c].transcript \in UserTexts /\ Len(out[c]) = 4

\* C2: for every session id, after N successful stateful chat calls since
\* the history was last empty (audio turns, chat_text commands, POST
\* /chat/message), the stored history has exactly 2N entries, alternating
\* user, model, user, model, ... ("model" is the agent's role in the store).
C2_HistoryHas2NEntries ==
    \A s \in AllSids :
      /\ Len(Hist(s)) = 2 * Len(log[s])
      /\ Alternates(Hist(s))

C2_Witness ==
    \E s \in AllSids : Len(log[s]) = 2 /\ Len(Hist(s)) = 4

\* C3: a stateful chat call that fails at the provider leaves the store as
\* it was, the set of stored session ids included.
C3_FailedChatLeavesStore ==
    [][ \A c \in Conns :
          ( \/ pc[c] = "llm" /\ stage'[c].llm = "fail"
            \/ /\ pc[c] = "awaiting" /\ pc'[c] = "closed"
               /\ stage'[c].kind = "chat_text" /\ stage'[c].llm = "fail" )
          => store' = store ]_vars

\* C4: an audio turn whose transcription and reasoning succeeded and whose
\* synthesis failed has sent transcript, reply_text and then one error event
\* naming the synthesis stage; no audio.
C4_SynthesisFailureKeepsText ==
    \A c \in Conns :
      ( pc[c] = "awaiting" /\ stage[c].kind = "audio" /\ stage[c].tts = "fail" )
      => /\ Types(out[c]) = <<"transcript", "reply_text", "error">>
         /\ out[c][1].text = loc[c].transcript
         /\ out[c][2].text = loc[c].reply_text
         /\ out[c][3].text = "TTS failed"

C4_Witness ==
    \E c \in Conns :
      /\ pc[c] = "awaiting" /\ stage[c].kind = "audio"
      /\ stage[c].stt = "ok" /\ stage[c].llm = "ok" /\ stage[c].tts = "fail"

\* C5: after any stage failure of an audio turn on a connection whose client
\* is still there, the handler has sent an error event as the last message
\* of the turn and is back at receive(): the connection is not closed and
\* the next frame can be received.
C5_FailureKeepsConnection ==
    \A c \in Conns :
      ( Failed(c) /\ alive[c] )
      => /\ pc[c] = "awaiting"
         /\ out[c] # <<>> /\ out[c][Len(out[c])].type = "error"
         /\ CanReceive(c)

C5_Witness ==
    \E c \in Conns, d \in Conns :
      /\ Failed(c) /\ alive[c] /\ stage[c].llm = "fail"
      /\ Failed(d) /\ alive[d] /\ stage[d].stt = "fail"

\* C6: when the primary transcription provider failed and the secondary
\* succeeded, speech_to_text returned the secondary's text as a normal
\* result: the turn went on with that text and no STT error.
C6_FallbackTextReturned ==
    \A c \in Conns :
      ( stage[c].primary = "fail" /\ stage[c].secondary = "ok" )
      => /\ stage[c].stt = IF stage[c].etext = "" THEN "empty" ELSE "ok"
         /\ loc[c].transcript = stage[c].etext
         /\ \A i \in 1..Len(out[c]) : out[c][i].text # "STT failed"
         /\ (alive[c] /\ stage[c].etext # "")
               => out[c] = <<Msg("transcript", stage[c].etext)>>

C6_Witness ==
    \E c \in Conns :
      /\ stage[c].primary = "fail" /\ stage[c].secondary = "ok"
      /\ stage[c].etext \in UserTexts /\ pc[c] = "llm" /\ alive[c]

Contains(seq, x) == \E i \in 1..Len(seq) : seq[i] = x

\* C7: when both transcription providers failed, the turn ended with one
\* error that carries the primary's and the secondary's error, and the steps
\* of the transcription left the store as it was.
C7_BothFailComposedError ==
    /\ [] ( \A c \in Conns :
              ( stage[c].primary = "fail" /\ stage[c].secondary = "fail" )
              => /\ stage[c].stt = "fail"
                 /\ alive[c] =>
                      /\ Len(out[c]) = 1
                      /\ out[c][1].type = "error"
                      /\ out[c][1].text = "STT failed"
                      /\ \A x \in 1..Len(stage[c].gerr) :
                            Contains(out[c][1].err, stage[c].gerr[x])
                      /\ \A x \in 1..Len(stage[c].eerr) :
                            Contains(out[c][1].err, stage[c].eerr[x])
                      /\ Len(out[c][1].err) > Len(stage[c].gerr) )
    /\ [][ \A c \in Conns :
             ( \/ pc[c] = "awaiting" /\ pc'[c] = "stt_elevenlabs"
               \/ pc[c] = "stt_elevenlabs" /\ pc'[c] # "stt_elevenlabs" )
             => store' = store ]_vars

C7_Witness ==
    \E c \in Conns :
      /\ stage[c].primary = "fail" /\ stage[c].secondary = "fail"
      /\ stage[c].gerr # NoErr /\ stage[c].eerr # NoErr
      /\ alive[c] /\ pc[c] = "awaiting"
      /\ \E s \in AllSids : Len(Hist(s)) > 0

\* C8: a disconnect (and a connect) leaves the store as it was, and every
\* successful stateful chat call is handed the history the store holds for
\* its session id and extends exactly that history, also when the call is
\* the first one of a connection that took up the id of an earlier one.
C8_DisconnectKeepsHistory ==
    [][ /\ \A c \in Conns : alive'[c] # alive[c] => store' = store
        /\ \A s \in AllSids :
             ( log'[s] # log[s] /\ log'[s] # <<>> )
             => LET e == log'[s][Len(log'[s])] IN
                /\ e.prior = Hist(s)
                /\ get_session_history(store', s)
                     = Hist(s) \o <<UserMsg(e.msg), ModelMsg(e.reply)>> ]_vars

C8_Witness ==
    \E c \in Conns :
      /\ stage[c].resumed /\ stage[c].kind = "audio" /\ stage[c].llm = "ok"
      /\ pc[c] = "tts"
      /\ Len(log[sid[c]]) = 2 /\ Len(log[sid[c]][2].prior) = 2
      /\ \A d \in Conns \ {c} : pc[d] = "closed"

\* C9: stateful chat calls on one session id are serialized: in every
\* reachable state, whatever the interleaving of the connections' turns and
\* the HTTP requests, the stored history is the one that the successful
\* calls produce when run one after the other; no append is lost.
C9_AppendsSerialized ==
    \A s \in AllSids : Hist(s) = Flatten(log[s])

C9_Witness ==
    /\ pc["c1"] = "tts" /\ pc["c2"] = "tts"
    /\ sid["c1"] = sid["c2"]
    /\ Len(log[sid["c1"]]) = 2
    /\ Len(Hist(sid["c1"])) = 4

\* the current turn of connection c has sent all its messages
TurnComplete(c) ==
    stage[c].kind = "audio"
    => /\ \/ stage[c].stt \in {"noaudio", "fail", "empty"}
          \/ stage[c].llm = "fail"
          \/ stage[c].tts \in {"ok", "fail"}
       /\ out[c] # <<>> /\ out[c][Len(out[c])].type \in {"done", "error"}

IsPrefix(a, b) == Len(a) <= Len(b) /\ SubSeq(b, 1, Len(a)) = a

\* C10: on one connection the handler takes a new inbound frame (the
\* messages of a new turn start) only when the current turn has sent all
\* its messages, so the messages of two turns are never interleaved.
C10_TurnsSequential ==
    [][ \A c \in Conns :
          ( /\ pc[c] # "closed" /\ pc'[c] # "closed"
            /\ \/ ~IsPrefix(out[c], out'[c])
               \/ stage'[c].kind # stage[c].kind )
          => TurnComplete(c) ]_vars

C10_Witness ==
    \E c \in Conns :
      /\ pc[c] = "llm" /\ stage[c].kind = "audio" /\ ~stage[c].resumed
      /\ sid[c] \in Generated /\ Len(log[sid[c]]) = 1
      /\ \A d \in Conns \ {c} : pc[d] = "closed"


\* a successful chat_text turn of a connection on session s is still on
\* display although s has no entry: the history was cleared after it
ClearedAfterChat(s) ==
    \E c \in Conns :
      /\ pc[c] = "awaiting" /\ sid[c] = s
      /\ stage[c].kind = "chat_text" /\ stage[c].llm = "ok"
      /\ s \notin DOMAIN store

\* C11: for every session id and every reachable store: after clear_session
\* the history read back is empty; clear_session on an id without an entry
\* returns false and leaves the store as it is, so a second clear right after
\* a first returns false; and every step that removes an id from the store
\* is a clear_session of that id that returned true.
C11_ClearThenEmpty ==
    /\ [] ( \A s \in AllSids :
              LET cl == clear_session(store, s) IN
              /\ get_session_history(cl.store, s) = <<>>
              /\ s \notin DOMAIN store => ( ~cl.cleared /\ cl.store = store )
              /\ ~clear_session(cl.store, s).cleared
              /\ clear_session(cl.store, s).store = cl.store )
    /\ [][ \A s \in AllSids :
             ( s \in DOMAIN store /\ s \notin DOMAIN store' )
             => /\ clear_session(store, s).cleared
                /\ store' = clear_session(store, s).store
                /\ get_session_history(store', s) = <<>> ]_vars

C11_Witness ==
    \E s \in AllSids : ClearedAfterChat(s)


\* C12: an audio turn whose transcription succeeded with empty text has sent
\* one error event ("No speech detected.") and nothing else, has invoked
\* neither chat() nor text_to_speech(), is back at receive(), and the step
\* that ended it left the store as it was.
C12_NoSpeechAborts ==
    /\ [] ( \A c \in Conns :
              ( stage[c].kind = "audio" /\ stage[c].stt = "empty" )
              => /\ stage[c].llm = "-" /\ stage[c].tts = "-"
                 /\ pc[c] \in {"awaiting", "closed"}
                 /\ loc[c].reply_text = ""
                 /\ alive[c] => /\ pc[c] = "awaiting"
                                /\ out[c] = <<ErrMsg("No speech detected.", NoErr)>> )
    /\ [][ \A c \in Conns :
             ( stage'[c].stt = "empty" /\ stage'[c] # stage[c] )
             => store' = store /\ log' = log ]_vars

C12_Witness ==
    \E c \in Conns :
      /\ stage[c].kind = "audio" /\ stage[c].stt = "empty"
      /\ stage[c].primary = "fail" /\ stage[c].secondary = "ok"
      /\ alive[c] /\ Len(Hist(sid[c])) > 0


\* C13: a binary frame with empty audio has been answered with one error
\* event ("Empty audio received.") and nothing else; no transcription
\* provider, chat() or text_to_speech() was invoked, the handler is back at
\* receive(), and the step left the store as it was.
C13_EmptyAudioRejected ==
    /\ [] ( \A c \in Conns :
              ( stage[c].kind = "audio" /\ stage[c].stt = "noaudio" )
              => /\ stage[c].primary = "-" /\ stage[c].secondary = "-"
                 /\ stage[c].llm = "-" /\ stage[c].tts = "-"
                 /\ loc[c] = NoLoc
                 /\ CanReceive(c)
                 /\ out[c] = <<ErrMsg("Empty audio received.", NoErr)>> )
    /\ [][ \A c \in Conns :
             ( stage'[c].stt = "noaudio" /\ stage'[c] # stage[c] )
             => store' = store /\ log' = log /\ pc[c] = "awaiting" ]_vars

C13_Witness ==
    \E c \in Conns :
      /\ stage[c].kind = "audio" /\ stage[c].stt = "noaudio"
      /\ pc[c] = "awaiting" /\ Len(Hist(sid[c])) > 0


\* C14: an audio turn whose transcription succeeded and whose reasoning
\* failed never reaches text_to_speech(); what it has sent is exactly the
\* transcript event and then one error event that names the reasoning stage
\* ("LLM failed") and carries the provider's error: no reply_text, audio or
\* done.
C14_ReasoningFailureStopsTurn ==
    \A c \in Conns :
      ( stage[c].kind = "audio" /\ stage[c].llm = "fail" )
      => /\ stage[c].stt = "ok" /\ stage[c].tts = "-"
         /\ pc[c] \in {"awaiting", "closed"}
         /\ loc[c].reply_text = ""
         /\ alive[c] => /\ pc[c] = "awaiting"
                        /\ Types(out[c]) = <<"transcript", "error">>
                        /\ out[c][1] = Msg("transcript", loc[c].transcript)
                        /\ out[c][2].text = "LLM failed"
                        /\ out[c][2].err # NoErr

C14_Witness ==
    \E c \in Conns :
      /\ stage[c].kind = "audio" /\ stage[c].stt = "ok" /\ stage[c].llm = "fail"
      /\ alive[c] /\ pc[c] = "awaiting" /\ Len(out[c]) = 2
      /\ loc[c].transcript \in UserTexts


\* C15: every audio turn that ended fully or partially successful on a live
\* connection (transcription and reasoning succeeded; synthesis succeeded or
\* failed) has sent a done event as its last message.
C15_DoneEndsPartialTurn ==
    \A c \in Conns :
      ( /\ stage[c].kind = "audio" /\ pc[c] = "awaiting" /\ alive[c]
        /\ stage[c].stt = "ok" /\ stage[c].llm = "ok"
        /\ stage[c].tts \in {"ok", "fail"} )
      => /\ out[c] # <<>>
         /\ out[c][Len(out[c])].type = "done"


\* C16: after a chat_text command whose chat() call failed, the client has
\* been sent an error event and the handler is back at receive(): the
\* connection is open and takes the next frame.
C16_TextFailureKeepsConnection ==
    \A c \in Conns :
      ( stage[c].kind = "chat_text" /\ stage[c].llm = "fail" /\ alive[c] )
      => /\ out[c] # <<>> /\ out[c][Len(out[c])].type = "error"
         /\ pc[c] = "awaiting"
         /\ CanReceive(c)


\* C17: a malformed text frame (text that is not JSON, or JSON that is not
\* an object) has been answered with no message at all, and the handler is
\* back at receive() for the next frame.
C17_MalformedTextIgnored ==
    \A c \in Conns :
      ( stage[c].kind \in {"ignored", "nonobject"} /\ alive[c] )
      => /\ out[c] = <<>>
         /\ pc[c] = "awaiting"
         /\ CanReceive(c)


\* C18: a ping command has been answered with exactly one pong event and
\* nothing else, no provider was invoked for it, and the step that handled
\* it left the store (ids and histories) and the connection's session id as
\* they were.
C18_PingPongOnly ==
    /\ [] ( \A c \in Conns :
              stage[c].kind = "ping"
              => /\ out[c] = <<Msg("pong", "")>>
                 /\ CanReceive(c)
                 /\ stage[c].primary = "-" /\ stage[c].secondary = "-"
                 /\ stage[c].stt = "-" /\ stage[c].llm = "-" /\ stage[c].tts = "-" )
    /\ [][ \A c \in Conns :
             ( stage'[c].kind = "ping" /\ stage'[c] # stage[c] )
             => /\ store' = store /\ log' = log
                /\ sid' = sid /\ uuids' = uuids ]_vars

C18_Witness ==
    \E c \in Conns, d \in Conns :
      /\ stage[c].kind = "ping" /\ pc[c] = "awaiting"
      /\ sid[c] \notin DOMAIN store
      /\ pc[d] = "llm" /\ Len(Hist(sid[d])) > 0


\* C19: a clear_memory command has been answered with exactly one
\* memory_cleared event that carries the connection's session id, whether or
\* not that id had a history; after the step that handled it the history
\* read for that id is empty, and the entries of all other ids are as they
\* were.
C19_ClearMemoryOwnSession ==
    /\ [] ( \A c \in Conns :
              stage[c].kind = "clear_memory"
              => /\ out[c] = <<Msg("memory_cleared", sid[c])>>
                 /\ CanReceive(c) )
    /\ [][ \A c \in Conns :
             ( stage'[c].kind = "clear_memory" /\ stage'[c] # stage[c] )
             => /\ sid'[c] = sid[c]
                /\ get_session_history(store', sid[c]) = <<>>
                /\ store' = clear_session(store, sid[c]).store
                /\ \A t \in AllSids \ {sid[c]} :
                     /\ t \in DOMAIN store' <=> t \in DOMAIN store
                     /\ get_session_history(store', t) = Hist(t) ]_vars

C19_Witness ==
    \E c \in Conns :
      /\ stage[c].kind = "clear_memory" /\ pc[c] = "awaiting"
      /\ ClearedAfterChat(sid[c])
      /\ \E t \in AllSids \ {sid[c]} : Len(Hist(t)) > 0


\* C20: a chat_text command with a non-empty message whose chat() call
\* succeeded has been answered with exactly one reply_text event and nothing
\* else (no transcript, audio or done); no transcription or synthesis
\* provider was invoked; and the step ran chat() in stateful mode on the
\* connection's session id: that id's history grew by the user's message
\* and the model's reply, and no other history changed.
C20_ChatTextReplyOnly ==
    /\ [] ( \A c \in Conns :
              ( stage[c].kind = "chat_text" /\ stage[c].llm = "ok" )
              => /\ out[c] = <<Msg("reply_text", loc[c].reply_text)>>
                 /\ loc[c].reply_text \in Replies
                 /\ CanReceive(c)
                 /\ sid[c] # ""
                 /\ stage[c].primary = "-" /\ stage[c].secondary = "-"
                 /\ stage[c].stt = "-" /\ stage[c].tts = "-" )
    /\ [][ \A c \in Conns :
             ( /\ stage'[c].kind = "chat_text" /\ stage'[c].llm = "ok"
               /\ stage'[c] # stage[c] )
             => /\ Len(log'[sid[c]]) = Len(log[sid[c]]) + 1
                /\ LET e == log'[sid[c]][Len(log'[sid[c]])] IN
                   /\ e.msg \in UserTexts
                   /\ get_session_history(store', sid[c])
                        = Hist(sid[c]) \o <<UserMsg(e.msg), ModelMsg(loc'[c].reply_text)>>
                /\ \A t \in AllSids \ {sid[c]} :
                     get_session_history(store', t) = Hist(t) ]_vars

C20_Witness ==
    \E c \in Conns :
      /\ stage[c].kind = "chat_text" /\ stage[c].llm = "ok"
      /\ pc[c] = "awaiting" /\ Len(Hist(sid[c])) = 4
      /\ \E t \in AllSids \ {sid[c]} : Len(Hist(t)) > 0


\* a step of the handler of connection c
StepOf(c) ==
    pc'[c] # pc[c] \/ out'[c] # out[c] \/ stage'[c] # stage[c]

\* C21: until its first frame a connection has sent exactly the connected
\* event, carrying its session id, and no later message is a connected
\* event; the id is the one the client supplied, or else a newly generated
\* one; it does not change while the connection lasts; and a step of the
\* connection's handler changes no history but that of this id.
C21_ConnectedOnceWithSid ==
    /\ [] ( \A c \in Conns :
              /\ ( pc[c] # "closed" /\ stage[c].kind = "none" )
                 => ( out[c] = <<Msg("connected", sid[c])>> /\ sid[c] # "" )
              /\ \A i \in 1..Len(out[c]) :
                   out[c][i].type = "connected" => ( i = 1 /\ stage[c].kind = "none" ) )
    /\ [][ \A c \in Conns :
             /\ ( pc[c] = "closed" /\ pc'[c] # "closed" )
                => \/ sid'[c] \in QuerySids(c) \ {""} /\ uuids' = uuids
                   \/ /\ sid'[c] \notin ClientSids \cup Generated
                      /\ uuids' = uuids + 1 /\ sid'[c] = UuidPool[uuids']
             /\ ( pc[c] # "closed" /\ pc'[c] # "closed" ) => sid'[c] = sid[c]
             /\ ( pc[c] # "closed" /\ StepOf(c) )
                => \A t \in AllSids \ {sid[c]} :
                     /\ t \in DOMAIN store' <=> t \in DOMAIN store
                     /\ get_session_history(store', t) = Hist(t) ]_vars

C21_Witness ==
    \E c \in Conns, d \in Conns :
      /\ pc[c] = "awaiting" /\ stage[c].kind = "none"
      /\ sid[c] \in Generated /\ ~stage[c].resumed
      /\ out[c] = <<Msg("connected", sid[c])>>
      /\ pc[d] = "tts" /\ sid[d] \in ClientSids


\* C22: a chat call without a session id neither reads nor writes the store:
\* for every reachable store, message and provider outcome, chat() returns
\* the store as it was and hands no stored history to the provider; and every
\* HTTP request that runs its chat call without a session id, successful or
\* failed, leaves the stored ids and histories as they were.
C22_StatelessLeavesStore ==
    /\ [] ( \A m \in UserTexts, r \in LlmOk \cup LlmFail :
              LET ch == chat(store, m, "", r) IN
              /\ ch.store = store
              /\ ch.prior = <<>>
              /\ ch.sid = ""
              /\ ch.ok = r.ok /\ ch.reply = r.text )
    /\ [][ ( /\ req' # req /\ req'.session_id = ""
             /\ "chat" \in req'.called )
           => store' = store /\ log' = log ]_vars

C22_Witness ==
    /\ req.route = "send_message" /\ req.session_id = ""
    /\ req.status = 200 /\ req.body.reply_text \in Replies
    /\ \E s \in AllSids : Len(Hist(s)) = 2


\* C23: every audio turn that is waiting for a provider eventually ends:
\* the handler gets back to receive() (after done or an error event) or the
\* connection is closed; no provider call blocks the turn forever.
C23_TurnEventuallyEnds ==
    \A c \in Conns :
      ( pc[c] \in {"stt_elevenlabs", "llm", "tts"} )
        ~> ( pc[c] \in {"awaiting", "closed"} )


\* C24: the response of a voice route whose transcription and reasoning
\* succeeded and whose synthesis failed names the synthesis failure and
\* carries the transcript and the reply text of the turn.
C24_VoicePartialResult ==
    ( /\ req.route \in VoiceRoutes /\ req.pc = "idle"
      /\ req.called = {"stt_gemini", "chat", "tts"}
      /\ req.status # 200 )
    => /\ req.detail = "TTS failed"
       /\ req.body.transcript = req.transcript
       /\ req.body.reply_text = req.reply_text


\* C25: no two connections that are live at the same time hold the same
\* session id.
C25_SidUniquePerConnection ==
    \A c \in Conns : \A d \in Conns \ {c} :
      ( pc[c] # "closed" /\ alive[c] /\ pc[d] # "closed" /\ alive[d] )
      => sid[c] # sid[d]


\* C26: the remote synthesis provider is invoked only for a text whose length
\* is within the ceiling, on every route that reaches text_to_speech.
C26_CeilingBeforeSynthesis ==
    "tts" \in req.called => TextLen(req.text) <= TtsMaxLen


\* C27: in every reachable state each stored history has roles alternating
\* user, model, ... starting with user; and in every step a history either
\* keeps its entries and at most gains some at the end, or its id is
\* removed by a clear: entries are never dropped, reordered or rewritten.
C27_AlternatingAppendOnly ==
    /\ [] ( \A s \in AllSids : Alternates(Hist(s)) /\ Len(Hist(s)) % 2 = 0 )
    /\ [][ \A s \in AllSids :
             \/ IsPrefix(Hist(s), get_session_history(store', s))
             \/ /\ s \notin DOMAIN store'
                /\ store' = clear_session(store, s).store ]_vars

C27_Witness ==
    \E c \in Conns : \E d \in Conns \ {c} :
      /\ sid[c] = sid[d] /\ pc[c] = "awaiting" /\ pc[d] = "tts"
      /\ stage[c].kind = "audio" /\ stage[c].llm = "fail"
      /\ Len(Hist(sid[c])) = 4


\* C28: for every session id, the k-th successful stateful chat call since
\* the last clear was handed, as prior history, exactly the 2(k-1) entries
\* that the k-1 calls before it produced, in their order.
C28_PriorContextHandedOver ==
    \A s \in AllSids : \A k \in 1..Len(log[s]) :
      /\ Len(log[s][k].prior) = 2 * (k - 1)
      /\ log[s][k].prior = Flatten(SubSeq(log[s], 1, k - 1))

C28_Witness ==
    \E c \in Conns :
      /\ stage[c].kind = "chat_text" /\ stage[c].llm = "ok" /\ pc[c] = "awaiting"
      /\ Len(log[sid[c]]) = 2
      /\ log[sid[c]][2].prior = <<UserMsg("a"), ModelMsg("r")>>


\* C29: the secondary transcription provider is invoked only after the
\* primary failed, and once: a turn whose primary succeeded, with text or
\* with the empty string, never waits for the secondary, and speech_to_text
\* returns the primary's text as it is, whatever the secondary would answer;
\* the empty text is reported as "No speech detected.", not as an STT
\* failure.
C29_FallbackOnlyOnFailure ==
    /\ \A g \in GeminiStt, e \in ElevenStt :
         g.ok => speech_to_text(g, e) = Ok(g.text)
    /\ \A c \in Conns :
         /\ stage[c].primary = "ok"
            => /\ stage[c].secondary = "-" /\ pc[c] # "stt_elevenlabs"
               /\ stage[c].stt \in {"ok", "empty"}
               /\ stage[c].stt = "empty"
                    => out[c] = <<ErrMsg("No speech detected.", NoErr)>>
         /\ pc[c] = "stt_elevenlabs"
            => stage[c].primary = "fail" /\ stage[c].secondary = "-"
         /\ stage[c].secondary # "-" => stage[c].primary = "fail"

C29_Witness ==
    \E c \in Conns : \E d \in Conns \ {c} :
      /\ stage[c].primary = "ok" /\ stage[c].stt = "empty" /\ pc[c] = "awaiting"
      /\ pc[d] = "stt_elevenlabs"


\* C30: the step of an audio turn in which chat() succeeds extends the
\* session's history by the turn's user and model entry; the step in which
\* text_to_speech then answers, with audio or with a failure, leaves the
\* store as it is, so the entries stay; and the next stateful chat call on
\* that id is handed them as part of the prior history.  The same holds for
\* the HTTP voice routes.
C30_NoRollbackOnSynthesisFailure ==
    [][ /\ \A c \in Conns :
             /\ ( pc[c] = "llm" /\ pc'[c] = "tts" )
                => get_session_history(store', sid[c])
                     = Hist(sid[c]) \o <<UserMsg(loc[c].transcript),
                                         ModelMsg(loc'[c].reply_text)>>
             /\ ( pc[c] = "tts" /\ pc'[c] # "tts" )
                => /\ store' = store /\ log' = log
                   /\ chat(store', "a", sid[c], Ok("r")).prior
                        = get_session_history(store', sid[c])
        /\ ( req.pc = "tts" /\ req'.pc = "idle" )
           => /\ store' = store /\ log' = log
              /\ req.session_id # ""
                 => chat(store', "a", req.session_id, Ok("r")).prior
                      = get_session_history(store', req.session_id) ]_vars

C30_Witness ==
    \E c \in Conns :
      /\ stage[c].kind = "audio" /\ stage[c].tts = "fail" /\ pc[c] = "awaiting"
      /\ Len(Hist(sid[c])) = 4 /\ Len(log[sid[c]]) = 2
      /\ Len(log[sid[c]][2].prior) = 2
      /\ \A d \in Conns \ {c} : pc[d] = "closed" /\ stage[d] = NoStage

====
